---- MODULE Spec2Model ----
(***************************************************************************)
(* Model of src/app.py: the Football Match Importance API.                 *)
(*                                                                         *)
(* The handler GET /matchinfo fetches the standings of a league from the   *)
(* upstream provider (get_standings), resolves the two team queries        *)
(* against the table (find_team), classifies the fixture                   *)
(* (match_importance) and shapes the JSON response (get_match_info).       *)
(*                                                                         *)
(* Python values are modelled as follows.                                  *)
(*   str     a TLA+ string; `in`, lower() and f-strings are computed on it *)
(*   float   an exact rational [num, den] with den > 0; the comparisons    *)
(*           the code makes (progress < 0.33, progress < 0.66) agree with  *)
(*           the exact ones for every integer table of up to 40 teams      *)
(*   dict    a sequence of entries with distinct keys, in insertion order  *)
(*   None    the record None; any other value v is Some(v)                 *)
(*   raise   a record [raised |-> <exception class>, msg |-> str(e)]       *)
(***************************************************************************)
EXTENDS Integers, Sequences, FiniteSets, TLC

VARIABLES req, call, ret

vars == <<req, call, ret>>

(***************************************************************************)
(* Bounds of the model.                                                    *)
(***************************************************************************)
\* the largest league size given to match_importance
MaxTeams == 20
\* the longest upstream table in the request handler's specifications
MaxRows == 2
\* the longest table and the largest playedGames given to get_standings on
\* its own
MaxLeague == 3
MaxPlayed == 5
\* the longest table and the longest team query given to find_team on its own
MaxKeys == 3
MaxLen == 2

(***************************************************************************)
(* Python values.                                                          *)
(***************************************************************************)
Rat(n, d) == [num |-> n, den |-> d]

RatLess(p, q) == p.num * q.den < q.num * p.den

RatLeq(p, q) == p.num * q.den <= q.num * p.den

None == [isNone |-> TRUE]

Some(v) == [isNone |-> FALSE, value |-> v]

UpperCase == "ABCDEFGHIJKLMNOPQRSTUVWXYZ"

LowerCase == "abcdefghijklmnopqrstuvwxyz"

CharAt(s, i) == SubSeq(s, i, i)

\* str.lower() on one character
LowerChar(c) ==
    IF \E i \in 1..Len(UpperCase) : CharAt(UpperCase, i) = c
    THEN CharAt(LowerCase, CHOOSE i \in 1..Len(UpperCase) : CharAt(UpperCase, i) = c)
    ELSE c

\* str.lower()
RECURSIVE Lower(_)
Lower(s) ==
    IF Len(s) = 0 THEN ""
    ELSE LowerChar(CharAt(s, 1)) \o Lower(SubSeq(s, 2, Len(s)))

\* Python's `a in b` on strings: a occurs in b as a contiguous substring
StrIn(a, b) ==
    \E i \in 1..(Len(b) - Len(a) + 1) : SubSeq(b, i, i + Len(a) - 1) = a

Max(a, b) == IF a >= b THEN a ELSE b

(***************************************************************************)
(* match_importance, src/app.py lines 62-86.                               *)
(***************************************************************************)
EarlyLimit == Rat(33, 100)

MidLimit == Rat(66, 100)

\* a variant of StageOf whose thresholds are inclusive
StageOf_inclusive(progress) ==
    IF RatLeq(progress, EarlyLimit) THEN "early season"
    ELSE IF RatLeq(progress, MidLimit) THEN "mid-season"
    ELSE "end of the season"

\* lines 64-69
StageOf(progress) ==
    IF RatLess(progress, EarlyLimit) THEN "early season"
    ELSE IF RatLess(progress, MidLimit) THEN "mid-season"
    ELSE "end of the season"

\* round(total_teams * 0.2): total_teams / 5 to the nearest integer.  A tie
\* needs total_teams = 5k + 2.5, so round's half-to-even rule never applies.
RoundFifth(total_teams) == (2 * total_teams + 5) \div 10

\* a variant of ZoneOf without the floor of three positions
ZoneOf_unfloored(total_teams) == RoundFifth(total_teams)

\* lines 71-72: top_zone and bottom_zone are the same expression
ZoneOf(total_teams) == Max(3, RoundFifth(total_teams))

\* a variant of match_importance whose "important for ..." checks look at
\* (pos1, pos2) only, not at (pos2, pos1)
match_importance_one_sided(pos1, pos2, total_teams, progress) ==
    LET stage == StageOf(progress)
        zone  == ZoneOf(total_teams)
    IN  IF pos1 <= zone /\ pos2 <= zone
        THEN " Top clash (" \o stage \o ")"
        ELSE IF pos1 > total_teams - zone /\ pos2 > total_teams - zone
        THEN " Relegation battle (" \o stage \o ")"
        ELSE IF pos1 <= zone /\ 2 * pos2 > total_teams
        THEN " Important for top team (" \o stage \o ")"
        ELSE IF pos1 > total_teams - zone /\ 2 * pos2 < total_teams
        THEN " Important for bottom team (" \o stage \o ")"
        ELSE " Regular match (" \o stage \o ")"

match_importance(pos1, pos2, total_teams, progress) ==
    LET stage       == StageOf(progress)
        top_zone    == ZoneOf(total_teams)
        bottom_zone == ZoneOf(total_teams)
        top_teams    == pos1 <= top_zone /\ pos2 <= top_zone
        bottom_teams == /\ pos1 > total_teams - bottom_zone
                        /\ pos2 > total_teams - bottom_zone
    IN  IF top_teams
        THEN " Top clash (" \o stage \o ")"
        ELSE IF bottom_teams
        THEN " Relegation battle (" \o stage \o ")"
        ELSE IF \/ (pos1 <= top_zone /\ 2 * pos2 > total_teams)
                \/ (pos2 <= top_zone /\ 2 * pos1 > total_teams)
        THEN " Important for top team (" \o stage \o ")"
        ELSE IF \/ (pos1 > total_teams - bottom_zone /\ 2 * pos2 < total_teams)
                \/ (pos2 > total_teams - bottom_zone /\ 2 * pos1 < total_teams)
        THEN " Important for bottom team (" \o stage \o ")"
        ELSE " Regular match (" \o stage \o ")"

(***************************************************************************)
(* The upstream provider's answer to one GET .../standings.                *)
(*   [kind |-> "unreachable"]           requests.get raises                *)
(*   [kind |-> "response", status_code, text, json]                        *)
(* json is NotJson when the body does not parse, else Json(data).          *)
(***************************************************************************)
Unreachable == [kind |-> "unreachable"]

NotJson == [parses |-> FALSE]

Json(data) == [parses |-> TRUE, data |-> data]

HttpResponse(status_code, text, json) ==
    [kind |-> "response", status_code |-> status_code, text |-> text, json |-> json]

\* requests.Response.ok: no 4xx or 5xx status
ResponseOk(response) == response.status_code < 400

Row(position, name, playedGames, points) ==
    [position |-> position, playedGames |-> playedGames, points |-> points,
     team |-> [name |-> name]]

(***************************************************************************)
(* The dict built at src/app.py lines 50-57: insertion order is kept, and  *)
(* a key set again keeps its place and takes the new value.                *)
(***************************************************************************)
EmptyDict == <<>>

HasKey(d, k) == \E i \in 1..Len(d) : d[i].key = k

DictGet(d, k) == d[CHOOSE i \in 1..Len(d) : d[i].key = k].value

DictPut(d, k, v) ==
    IF HasKey(d, k)
    THEN [i \in 1..Len(d) |-> IF d[i].key = k THEN [key |-> k, value |-> v] ELSE d[i]]
    ELSE Append(d, [key |-> k, value |-> v])

\* list(d.keys())
DictKeys(d) == [i \in 1..Len(d) |-> d[i].key]

(***************************************************************************)
(* get_standings, src/app.py lines 33-59.                                  *)
(***************************************************************************)
Raise(class, msg) == [ok |-> FALSE, raised |-> class, msg |-> msg]

Return(v) == [ok |-> TRUE, value |-> v]

Front(seq) == SubSeq(seq, 1, Len(seq) - 1)

Last(seq) == seq[Len(seq)]

\* line 46: sum(team["playedGames"] for team in standings)
RECURSIVE SumPlayed(_)
SumPlayed(standings) ==
    IF Len(standings) = 0 THEN 0
    ELSE SumPlayed(Front(standings)) + Last(standings).playedGames

\* the first key a row lacks, in the order lines 50-57 read them
MissingKey(row) ==
    IF "team" \notin DOMAIN row THEN "team"
    ELSE IF "name" \notin DOMAIN row.team THEN "name"
    ELSE IF "position" \notin DOMAIN row THEN "position"
    ELSE IF "playedGames" \notin DOMAIN row THEN "playedGames"
    ELSE IF "points" \notin DOMAIN row THEN "points"
    ELSE ""

\* lines 50-57: the dict comprehension over the rows
RECURSIVE TableOf(_)
TableOf(standings) ==
    IF Len(standings) = 0 THEN EmptyDict
    ELSE LET team == Last(standings)
         IN  DictPut(TableOf(Front(standings)),
                     Lower(team.team.name),
                     [position |-> team.position,
                      played   |-> team.playedGames,
                      points   |-> team.points])

\* a variant of SeasonProgress that counts a single round robin
SeasonProgress_single_round(played, total_teams) ==
    Rat(played, total_teams * (total_teams - 1))

\* lines 46-48 for total_teams >= 2:
\* (played / total_teams) / ((total_teams - 1) * 2)
SeasonProgress(played, total_teams) ==
    Rat(played, total_teams * ((total_teams - 1) * 2))

get_standings(competition_code, reply) ==
    IF reply.kind = "unreachable"
    THEN Raise("ConnectionError", "connection to the provider failed")
    ELSE IF ~ResponseOk(reply)
    THEN Raise("Exception", "API request failed: " \o ToString(reply.status_code)
                            \o " - " \o reply.text)
    ELSE IF ~reply.json.parses
    THEN Raise("JSONDecodeError", "Expecting value: line 1 column 1 (char 0)")
    ELSE LET data == reply.json.data IN
    IF "standings" \notin DOMAIN data
    THEN Raise("KeyError", "'standings'")
    ELSE IF Len(data.standings) = 0
    THEN Raise("IndexError", "list index out of range")
    ELSE IF "table" \notin DOMAIN data.standings[1]
    THEN Raise("KeyError", "'table'")
    ELSE LET standings   == data.standings[1].table
             total_teams == Len(standings)
             unplayed    == {i \in 1..total_teams :
                                "playedGames" \notin DOMAIN standings[i]}
             malformed   == {i \in 1..total_teams : MissingKey(standings[i]) # ""}
         IN
    IF unplayed # {}
    THEN Raise("KeyError", "'playedGames'")
    ELSE IF total_teams = 0
    THEN Raise("ZeroDivisionError", "division by zero")
    ELSE IF (total_teams - 1) * 2 = 0
    THEN Raise("ZeroDivisionError", "float division by zero")
    ELSE IF malformed # {}
    THEN Raise("KeyError",
               "'" \o MissingKey(standings[CHOOSE i \in malformed :
                                              \A j \in malformed : i <= j]) \o "'")
    ELSE Return([table       |-> TableOf(standings),
                 total_teams |-> total_teams,
                 progress    |-> SeasonProgress(SumPlayed(standings), total_teams)])

(***************************************************************************)
(* find_team, src/app.py lines 89-95.                                      *)
(***************************************************************************)
\* a variant of find_team that does not lowercase the query
find_team_case_sensitive(name, standings) ==
    LET hits == {i \in 1..Len(standings) : StrIn(name, standings[i].key)}
    IN  IF hits = {} THEN None
        ELSE Some(standings[CHOOSE i \in hits : \A j \in hits : i <= j].key)

find_team(name, standings) ==
    LET lowered == Lower(name)
        hits    == {i \in 1..Len(standings) : StrIn(lowered, standings[i].key)}
    IN  IF hits = {} THEN None
        ELSE Some(standings[CHOOSE i \in hits : \A j \in hits : i <= j].key)

(***************************************************************************)
(* get_match_info, src/app.py lines 102-143.                               *)
(***************************************************************************)
\* Python's truth value of what find_team returns: None and "" are false
Truthy(t) == ~t.isNone /\ t.value # ""

\* the classes `except Exception` catches
ExceptionClasses ==
    {"Exception", "ConnectionError", "JSONDecodeError", "KeyError",
     "IndexError", "ZeroDivisionError"}

JSONResponse(status_code, content) == [status |-> status_code, body |-> content]

\* what the framework answers when an exception leaves the handler
Unhandled == JSONResponse(500, [detail |-> "Internal Server Error"])

\* f"{progress*100:.1f}%": one decimal, to the nearest tenth, half to even on
\* the exact value; this is the text the float gives for every table of up to
\* 15 teams in which no team has played more than (total_teams - 1) * 2 games
FormatPercent(progress) ==
    LET scaled == 1000 * progress.num
        q      == scaled \div progress.den
        r      == scaled % progress.den
        up     == 2 * r > progress.den \/ (2 * r = progress.den /\ q % 2 = 1)
        tenths == IF up THEN q + 1 ELSE q
    IN  ToString(tenths \div 10) \o "." \o ToString(tenths % 10) \o "%"

\* a variant of Caught for `except` naming only the error get_standings
\* raises itself
Caught_narrow(class) == class = "Exception"

\* line 115: `except Exception` catches every subclass of Exception
Caught(class) == class \in ExceptionClasses

\* lines 115-143; got is what the call of get_standings at line 114 gave
get_match_info(league, team1, team2, got) ==
    IF ~got.ok /\ Caught(got.raised)
    THEN JSONResponse(400, [error |-> got.msg])
    ELSE IF ~got.ok
    THEN Unhandled
    ELSE LET standings   == got.value.table
             total_teams == got.value.total_teams
             progress    == got.value.progress
             t1 == find_team(team1, standings)
             t2 == find_team(team2, standings)
         IN
    IF ~Truthy(t1) \/ ~Truthy(t2)
    THEN JSONResponse(404, [error |-> "One or both teams were not found.",
                            available_teams |-> DictKeys(standings)])
    ELSE LET pos1    == DictGet(standings, t1.value).position
             pos2    == DictGet(standings, t2.value).position
             points1 == DictGet(standings, t1.value).points
             points2 == DictGet(standings, t2.value).points
             importance == match_importance(pos1, pos2, total_teams, progress)
         IN  JSONResponse(200,
                 [league |-> league,
                  team1  |-> [name |-> t1.value, position |-> pos1, points |-> points1],
                  team2  |-> [name |-> t2.value, position |-> pos2, points |-> points2],
                  importance |-> importance,
                  season_progress |-> FormatPercent(progress)])

(***************************************************************************)
(* Applying a function to arguments: call holds the arguments, ret the     *)
(* value returned.                                                         *)
(***************************************************************************)
Pending == [done |-> FALSE]

Returned(v) == [done |-> TRUE, value |-> v]

NoRequests == <<>>

\* progress values around the two thresholds, at the ends and past the end
Progresses ==
    {Rat(0, 1), Rat(32, 100), Rat(33, 100), Rat(34, 100), Rat(65, 100),
     Rat(66, 100), Rat(67, 100), Rat(1, 1), Rat(21, 20)}

ClassifyCalls ==
    {[fn |-> "match_importance", pos1 |-> p1, pos2 |-> p2,
      total_teams |-> t, progress |-> pr] :
        p1 \in 0..(MaxTeams + 1), p2 \in 0..(MaxTeams + 1),
        t \in 1..MaxTeams, pr \in Progresses}

InitClassify ==
    /\ req = NoRequests
    /\ ret = Pending
    /\ call \in ClassifyCalls

Classify ==
    /\ call.fn = "match_importance"
    /\ ~ret.done
    /\ ret' = Returned(match_importance(call.pos1, call.pos2,
                                        call.total_teams, call.progress))
    /\ UNCHANGED <<req, call>>

NextClassify == Classify

SpecClassify == InitClassify /\ [][NextClassify]_vars

(***************************************************************************)
(* The inputs of the request handler's specifications.                     *)
(***************************************************************************)
\* display names the provider may send; two of them share a lowercased key
TeamNames == {"", "Ab", "aB", "Ba", "b"}

PlayedValues == {0, 2}

PointsValues == {0, 3}

\* the rows the provider may send at a position; the last one lacks "points"
RowsAt(position) ==
    {Row(position, name, played, points) :
        name \in TeamNames, played \in PlayedValues, points \in PointsValues}
    \cup {[position |-> position, playedGames |-> 0, team |-> [name |-> "b"]]}

\* ranked tables of n rows, the row at each position drawn from rows[position]
RECURSIVE TablesOfLen(_, _)
TablesOfLen(n, rows) ==
    IF n = 0 THEN {<<>>}
    ELSE {Append(t, r) : t \in TablesOfLen(n - 1, rows), r \in rows[n]}

\* ranked tables of up to n rows
TablesUpTo(n, rows) == UNION {TablesOfLen(k, rows) : k \in 0..n}

TableReply(table) ==
    HttpResponse(200, "{...}", Json([standings |-> <<[type |-> "TOTAL", table |-> table]>>]))

\* answers that carry no standings table
TablelessReplies ==
    {Unreachable,
     HttpResponse(403, "forbidden", Json([message |-> "forbidden"])),
     HttpResponse(404, "not found", NotJson),
     HttpResponse(200, "<html>", NotJson),
     HttpResponse(200, "{...}", Json([message |-> "no standings"])),
     HttpResponse(200, "{...}", Json([standings |-> <<>>])),
     HttpResponse(200, "{...}", Json([standings |-> <<[type |-> "TOTAL"]>>]))}

Replies ==
    TablelessReplies
    \cup {TableReply(t) : t \in TablesUpTo(MaxRows, [i \in 1..MaxRows |-> RowsAt(i)])}

TeamQueries == {"", "A", "aB", "b", "zz"}

Queries ==
    {[league |-> "PL", team1 |-> q1, team2 |-> q2] :
        q1 \in TeamQueries, q2 \in TeamQueries}

\* the inputs of the specification of concurrent requests
ConcRowsAt(position) == {Row(position, name, 2, 3) : name \in {"Ab", "b"}}

ConcReplies ==
    TablelessReplies
    \cup {TableReply(t) : t \in TablesUpTo(MaxRows, [i \in 1..MaxRows |-> ConcRowsAt(i)])}

ConcQueries ==
    {[league |-> l, team1 |-> "A", team2 |-> q2] :
        l \in {"PL", "SA"}, q2 \in {"b", "zz"}}

(***************************************************************************)
(* The request handler.  A request is idle until the server dispatches it  *)
(* to get_match_info; the handler blocks in requests.get (line 37) until   *)
(* the provider answers, and then runs to its return.                      *)
(***************************************************************************)
Requests == {"r1", "r2"}

Idle == [pc |-> "idle", calls |-> 0]

InitRequests ==
    /\ req = [r \in Requests |-> Idle]
    /\ call = [fn |-> "none"]
    /\ ret = Pending

\* lines 102-114 and 35-37: the handler is entered and issues its one GET
Receive(r, queries) ==
    /\ req[r].pc = "idle"
    /\ \E q \in queries :
         req' = [req EXCEPT ![r] = [pc |-> "fetching", league |-> q.league,
                                    team1 |-> q.team1, team2 |-> q.team2,
                                    calls |-> req[r].calls + 1]]
    /\ UNCHANGED <<call, ret>>

\* a variant of Fetch that reuses the standings another request of the same
\* league has fetched
Fetch_cached(r, reply) ==
    LET others == {o \in Requests \ {r} :
                      req[o].pc = "responded" /\ req[o].league = req[r].league}
    IN  IF others = {} THEN get_standings(req[r].league, reply)
        ELSE get_standings(req[r].league, req[CHOOSE o \in others : TRUE].reply)

\* line 114: the standings the handler of request r works on
Fetch(r, reply) == get_standings(req[r].league, reply)

\* lines 37-143: the provider answers and the handler runs to its return
Complete(r, replies) ==
    /\ req[r].pc = "fetching"
    /\ \E reply \in replies :
         req' = [req EXCEPT ![r] =
                    [pc |-> "responded", league |-> req[r].league,
                     team1 |-> req[r].team1, team2 |-> req[r].team2,
                     calls |-> req[r].calls, reply |-> reply,
                     response |-> get_match_info(req[r].league, req[r].team1,
                                                 req[r].team2, Fetch(r, reply))]]
    /\ UNCHANGED <<call, ret>>

\* one request, every input
Next == Receive("r1", Queries) \/ Complete("r1", Replies)

Spec == InitRequests /\ [][Next]_vars

\* requests in parallel
NextConc ==
    \E r \in Requests : Receive(r, ConcQueries) \/ Complete(r, ConcReplies)

SpecConc == InitRequests /\ [][NextConc]_vars

(***************************************************************************)
(* find_team on the table get_standings builds from the provider's rows.   *)
(***************************************************************************)
Alphabet == {"A", "b", "B"}

RECURSIVE StringsOfLen(_)
StringsOfLen(n) ==
    IF n = 0 THEN {""}
    ELSE {s \o c : s \in StringsOfLen(n - 1), c \in Alphabet}

FindQueries == UNION {StringsOfLen(n) : n \in 0..MaxLen}

FindCalls ==
    {[fn |-> "find_team", name |-> q, table |-> t] :
        q \in FindQueries,
        t \in TablesUpTo(MaxKeys, [i \in 1..MaxKeys |->
                                      {Row(i, name, 0, 0) : name \in TeamNames}])}

InitFind ==
    /\ req = NoRequests
    /\ ret = Pending
    /\ call \in FindCalls

FindTeam ==
    /\ call.fn = "find_team"
    /\ ~ret.done
    /\ ret' = Returned(find_team(call.name, TableOf(call.table)))
    /\ UNCHANGED <<req, call>>

NextFind == FindTeam

SpecFind == InitFind /\ [][NextFind]_vars

(***************************************************************************)
(* get_standings on tables of every length and number of games played.     *)
(***************************************************************************)
ProgressCalls ==
    {[fn |-> "get_standings", reply |-> TableReply(t)] :
        t \in TablesUpTo(MaxLeague, [i \in 1..MaxLeague |->
                  {Row(i, CharAt(UpperCase, i), played, 0) : played \in 0..MaxPlayed}])}

InitProgress ==
    /\ req = NoRequests
    /\ ret = Pending
    /\ call \in ProgressCalls

Standings ==
    /\ call.fn = "get_standings"
    /\ ~ret.done
    /\ ret' = Returned(get_standings("PL", call.reply))
    /\ UNCHANGED <<req, call>>

NextProgress == Standings

SpecProgress == InitProgress /\ [][NextProgress]_vars

(***************************************************************************)
(* Properties of match_importance, stated for SpecClassify.                *)
(***************************************************************************)
Categories ==
    {"Top clash", "Relegation battle", "Important for top team",
     "Important for bottom team", "Regular match"}

Stages == {"early season", "mid-season", "end of the season"}

Classified == call.fn = "match_importance" /\ ret.done

InRange == call.pos1 \in 1..call.total_teams /\ call.pos2 \in 1..call.total_teams

\* the category the ordered checks of the specification select
ExpectedCategory(p1, p2, n) ==
    LET zoneSize == IF (2 * n + 5) \div 10 > 3 THEN (2 * n + 5) \div 10 ELSE 3
        top(p)    == p <= zoneSize
        bottom(p) == p > n - zoneSize
        lower(p)  == 2 * p > n
        upper(p)  == 2 * p < n
    IN  CASE top(p1) /\ top(p2) -> "Top clash"
          [] ~(top(p1) /\ top(p2)) /\ bottom(p1) /\ bottom(p2) -> "Relegation battle"
          [] /\ ~(top(p1) /\ top(p2))
             /\ ~(bottom(p1) /\ bottom(p2))
             /\ ((top(p1) /\ lower(p2)) \/ (top(p2) /\ lower(p1)))
               -> "Important for top team"
          [] /\ ~(top(p1) /\ top(p2))
             /\ ~(bottom(p1) /\ bottom(p2))
             /\ ~((top(p1) /\ lower(p2)) \/ (top(p2) /\ lower(p1)))
             /\ ((bottom(p1) /\ upper(p2)) \/ (bottom(p2) /\ upper(p1)))
               -> "Important for bottom team"
          [] OTHER -> "Regular match"

\* the label names this category and no other
Names(label, cat) == \A c \in Categories : StrIn(c, label) <=> c = cat

CallIs(p1, p2, n) == call.pos1 = p1 /\ call.pos2 = p2 /\ call.total_teams = n

\* C1: for positions within the table, match_importance names the category
\* of the first of the ordered checks that holds, with one zone size
\* max(3, round(totalTeams * 0.2)) for both zones; for 20 teams (1,2) is a
\* top clash, (19,20) a relegation battle, (1,15) important for the top team
\* and (10,11) a regular match; where the top-clash and the relegation
\* conditions both hold the label is Top clash.
C1_OrderedChecks ==
    (Classified /\ InRange) =>
        /\ Names(ret.value, ExpectedCategory(call.pos1, call.pos2, call.total_teams))
        /\ CallIs(1, 2, 20) => Names(ret.value, "Top clash")
        /\ CallIs(19, 20, 20) => Names(ret.value, "Relegation battle")
        /\ CallIs(1, 15, 20) => Names(ret.value, "Important for top team")
        /\ CallIs(10, 11, 20) => Names(ret.value, "Regular match")
        /\ LET z == ZoneOf(call.total_teams)
           IN  (/\ call.pos1 <= z /\ call.pos2 <= z
                /\ call.pos1 > call.total_teams - z
                /\ call.pos2 > call.total_teams - z)
               => Names(ret.value, "Top clash")

\* a small league in which both positions lie in the top and in the bottom zone
C1_Witness ==
    /\ Classified /\ InRange
    /\ call.total_teams = 4 /\ call.pos1 = 2 /\ call.pos2 = 3
    /\ Names(ret.value, "Top clash")

\* C5: swapping the two positions gives the same label.
C5_Symmetric ==
    Classified =>
        ret.value = match_importance(call.pos2, call.pos1,
                                     call.total_teams, call.progress)

\* the top team is the second argument: only the swapped disjunct applies
C5_Witness ==
    /\ Classified
    /\ call.total_teams = 20 /\ call.pos1 = 15 /\ call.pos2 = 1
    /\ Names(ret.value, "Important for top team")

\* C6: the stage in the label is fixed by progress alone: below 0.33 early
\* season, from 0.33 and below 0.66 mid-season, from 0.66 end of the season.
C6_StageThresholds ==
    Classified =>
        LET p == call.progress
            stage == CASE 100 * p.num < 33 * p.den -> "early season"
                       [] 100 * p.num >= 33 * p.den /\ 100 * p.num < 66 * p.den
                            -> "mid-season"
                       [] 100 * p.num >= 66 * p.den -> "end of the season"
        IN  \A st \in Stages : StrIn("(" \o st \o ")", ret.value) <=> st = stage

\* progress exactly 0.33, for a pair of positions outside both zones
C6_Witness ==
    /\ Classified
    /\ call.progress = Rat(33, 100)
    /\ call.pos1 = 10 /\ call.pos2 = 11 /\ call.total_teams = 20
    /\ StrIn("(mid-season)", ret.value)

\* C8: the label is the category text, one space and the stage in
\* parentheses, with nothing before or after it.
C8_LabelText ==
    Classified =>
        \E cat \in Categories, st \in Stages :
            ret.value = cat \o " (" \o st \o ")"

(***************************************************************************)
(* Properties of GET /matchinfo, stated for Spec (one request, every       *)
(* input) and SpecConc (requests in parallel).                             *)
(***************************************************************************)
Responded(r) == req[r].pc = "responded"

\* the provider answered with a success status and a body of the expected
\* shape {"standings": [{"table": [...]}, ...]}
HasTable(reply) ==
    /\ reply.kind = "response"
    /\ reply.status_code < 400
    /\ reply.json.parses
    /\ "standings" \in DOMAIN reply.json.data
    /\ Len(reply.json.data.standings) > 0
    /\ "table" \in DOMAIN reply.json.data.standings[1]

TableIn(reply) == reply.json.data.standings[1].table

WellFormedRow(row) ==
    DOMAIN row = {"position", "playedGames", "points", "team"}

\* C2: when the standings fetch fails (no answer, a non-success status, a
\* body that is not JSON or lacks standings[0].table or a field of a row, or
\* anything else get_standings raises), the response is 400 with a body
\* holding only the error message; it is never 404 or 200.
C2_FetchFailureIs400 ==
    \A r \in Requests :
        (/\ Responded(r)
         /\ \/ ~HasTable(req[r].reply)
            \/ \E i \in 1..Len(TableIn(req[r].reply)) :
                   ~WellFormedRow(TableIn(req[r].reply)[i])
            \/ ~get_standings(req[r].league, req[r].reply).ok)
        => /\ req[r].response.status = 400
           /\ DOMAIN req[r].response.body = {"error"}

\* the provider answered 200 with JSON that has no table
C2_Witness ==
    /\ Responded("r1")
    /\ req["r1"].reply = HttpResponse(200, "{...}", Json([standings |-> <<>>]))
    /\ req["r1"].response = JSONResponse(400, [error |-> "list index out of range"])

\* C7: a standings table of exactly one row does not crash the service: the
\* division by zero does not leave the handler, and the request ends with a
\* response of the handler's own.
C7_OneRowTableAnswered ==
    \A r \in Requests :
        (/\ Responded(r)
         /\ HasTable(req[r].reply)
         /\ Len(TableIn(req[r].reply)) = 1)
        => /\ req[r].response # Unhandled
           /\ req[r].response.status \in {200, 400, 404}
           /\ req[r].response.status = 400 => DOMAIN req[r].response.body = {"error"}

\* one well-formed row: (total_teams - 1) * 2 is zero
C7_Witness ==
    /\ Responded("r1")
    /\ req["r1"].reply = TableReply(<<Row(1, "Ab", 2, 3)>>)
    /\ req["r1"].response = JSONResponse(400, [error |-> "float division by zero"])

\* no row's lowercased name contains the lowercased query
Unresolved(query, table) ==
    \A i \in 1..Len(table) : ~StrIn(Lower(query), Lower(table[i].team.name))

\* the last row of the table under a key: the one the dict keeps
StoredUnder(key, table) ==
    table[CHOOSE i \in 1..Len(table) :
              /\ Lower(table[i].team.name) = key
              /\ \A j \in (i + 1)..Len(table) : Lower(table[j].team.name) # key]

ReportsTeam(team, table) ==
    /\ \E i \in 1..Len(table) : Lower(table[i].team.name) = team.name
    /\ team.position = StoredUnder(team.name, table).position
    /\ team.points = StoredUnder(team.name, table).points

\* C3: after a successful fetch the response is 404 exactly when team1 or
\* team2 resolves to no key, its available_teams lists every key; otherwise
\* it is 200 with the resolved key of each team and the position and points
\* stored under that key.
C3_NotFoundExactlyWhenUnresolved ==
    \A r \in Requests :
        (Responded(r) /\ get_standings(req[r].league, req[r].reply).ok)
        => LET table == TableIn(req[r].reply)
               resp  == req[r].response
           IN  /\ resp.status = 404
                  <=> (Unresolved(req[r].team1, table) \/ Unresolved(req[r].team2, table))
               /\ resp.status = 404 =>
                      \A i \in 1..Len(table) :
                          \E j \in 1..Len(resp.body.available_teams) :
                              resp.body.available_teams[j] = Lower(table[i].team.name)
               /\ resp.status # 404 =>
                      /\ resp.status = 200
                      /\ StrIn(Lower(req[r].team1), resp.body.team1.name)
                      /\ StrIn(Lower(req[r].team2), resp.body.team2.name)
                      /\ ReportsTeam(resp.body.team1, table)
                      /\ ReportsTeam(resp.body.team2, table)

\* C9: every request issues exactly one standings call, whatever its status,
\* and its response is fixed by its own parameters and the provider's answer
\* to its own call, whatever the other requests do.
C9_OneCallOwnState ==
    \A r \in Requests :
        /\ req[r].pc = "idle" => req[r].calls = 0
        /\ req[r].pc = "fetching" => req[r].calls = 1
        /\ Responded(r) =>
              /\ req[r].calls = 1
              /\ req[r].response.status \in {200, 400, 404}
              /\ req[r].response =
                    get_match_info(req[r].league, req[r].team1, req[r].team2,
                                   get_standings(req[r].league, req[r].reply))

\* two requests for one league got different answers from the provider and
\* ended in different statuses
C9_Witness ==
    /\ Responded("r1") /\ Responded("r2")
    /\ req["r1"].league = req["r2"].league
    /\ req["r1"].response.status = 200
    /\ req["r2"].response.status = 400
    /\ req["r1"].calls = 1 /\ req["r2"].calls = 1

(***************************************************************************)
(* Properties of find_team, stated for SpecFind.                           *)
(***************************************************************************)
Found == call.fn = "find_team" /\ ret.done

\* the query in capital letters
RECURSIVE Upper(_)
Upper(s) ==
    IF Len(s) = 0 THEN ""
    ELSE LET c == CharAt(s, 1)
             u == IF \E i \in 1..Len(LowerCase) : CharAt(LowerCase, i) = c
                  THEN CharAt(UpperCase,
                              CHOOSE i \in 1..Len(LowerCase) : CharAt(LowerCase, i) = c)
                  ELSE c
         IN  u \o Upper(SubSeq(s, 2, Len(s)))

\* the rows, in the provider's order, whose lowercased name contains the
\* lowercased query
Matching(query, table) ==
    {i \in 1..Len(table) : StrIn(Lower(query), Lower(table[i].team.name))}

\* C4: find_team returns the first key, in the provider's order, that
\* contains the lowercased query, whatever the letter case of the query, and
\* None exactly when no key contains it.
C4_FirstMatchAnyCase ==
    Found =>
        LET hits == Matching(call.name, call.table)
        IN  /\ ret.value.isNone <=> hits = {}
            /\ hits # {} =>
                   \E i \in hits :
                       /\ \A j \in hits : i <= j
                       /\ ret.value = Some(Lower(call.table[i].team.name))
            /\ \A other \in {Lower(call.name), Upper(call.name)} :
                   find_team(other, TableOf(call.table)) = ret.value

\* an upper-case query that three names contain: the first of them wins
C4_Witness ==
    /\ Found
    /\ call.name = "B"
    /\ Len(call.table) = 3
    /\ call.table[1].team.name = "Ab"
    /\ call.table[2].team.name = "Ba"
    /\ call.table[3].team.name = "b"
    /\ ret.value = Some("ab")

(***************************************************************************)
(* Properties of the season progress, stated for SpecProgress.             *)
(***************************************************************************)
Computed == call.fn = "get_standings" /\ ret.done

RECURSIVE PlayedUpTo(_, _)
PlayedUpTo(table, n) ==
    IF n = 0 THEN 0 ELSE PlayedUpTo(table, n - 1) + table[n].playedGames

OneMoreGame(table, i) ==
    [table EXCEPT ![i] = [table[i] EXCEPT !.playedGames = table[i].playedGames + 1]]

\* C10: for two teams or more, seasonProgress is
\* (sum of playedGames / totalTeams) / ((totalTeams - 1) * 2); a further game
\* played by any team never lowers it; it is 0 when no game has been played,
\* within [0, 1] when no team has played more than (totalTeams - 1) * 2
\* games, and above 1 only if some team has.
C10_ProgressBounds ==
    (Computed /\ Len(TableIn(call.reply)) >= 2) =>
        LET table == TableIn(call.reply)
            n     == Len(table)
            games == (n - 1) * 2
            total == PlayedUpTo(table, n)
            p     == ret.value.value.progress
        IN  /\ ret.value.ok
            /\ p.den > 0
            /\ p.num * (n * games) = total * p.den
            /\ \A i \in 1..n :
                   RatLeq(p, get_standings("PL", TableReply(OneMoreGame(table, i)))
                                 .value.progress)
            /\ total = 0 => p.num = 0
            /\ (\A i \in 1..n : table[i].playedGames <= games) =>
                   (p.num >= 0 /\ p.num <= p.den)
            /\ p.num > p.den => \E i \in 1..n : table[i].playedGames > games

\* every team has played its whole double round robin: progress is exactly 1
C10_Witness ==
    /\ Computed
    /\ Len(TableIn(call.reply)) = 3
    /\ \A i \in 1..3 : TableIn(call.reply)[i].playedGames = 4
    /\ ret.value.ok
    /\ ret.value.value.progress.num = ret.value.value.progress.den

====
